---- MODULE Spec2Model ----
(***************************************************************************)
(* Model of app.py: the microdata cleaning script.  One run of the script  *)
(* is a straight-line pipeline over a pandas DataFrame:                    *)
(*   load -> date filter -> county filter -> audit detection ->            *)
(*   three sequential drop_duplicates -> removal counts -> enrichment ->   *)
(*   general summaries -> county level summaries.                          *)
(* A DataFrame is a sequence of rows; every row keeps its original index   *)
(* label (idx), as pandas does through filtering and drop_duplicates.      *)
(***************************************************************************)
EXTENDS Integers, Sequences, FiniteSets, TLC

\* ---------------------------------------------------------------- bounds
MaxRows == 3      \* rows of the sheet in the dedup-oriented inputs
MaxAge == 40      \* largest numeral written in an age cell
AgeRows == 1      \* rows of the sheet in the age-oriented inputs
AggRows == 2      \* rows of the sheet in the county-summary-oriented inputs
SortRows == 4     \* rows of the sheet in the sort-oriented inputs

\* ------------------------------------------------------- values of cells
\* The missing-value marker (NaN / NaT) read_csv and errors='coerce' produce.
NaN == -1
isnull(x) == x = NaN
notnull(x) == x # NaN

\* The 'All' entry that is prepended to the county select box.
All == 0

\* National ID / phone cells: missing, or one of two values.
KeyVals == {NaN, 1, 2}
Dates == {1, 2}
LocVals == {NaN, 1, 2}

\* Text cells are tuples of characters.  read_csv turns an empty cell into
\* the missing value, so a text cell is never the empty string and the empty
\* tuple stands for the missing text cell.
NaNText == <<>>
isnullText(c) == c = NaNText

id_col == "id"
phone_col == "phone"
pwd_col == "pwd"

VARIABLES
    pc,                 \* position of the script
    columns,            \* key columns present in the sheet
    df,                 \* the working DataFrame (filtered in place)
    filters,            \* start_date, end_date, selected_county
    initial_count,
    audit,              \* ids_with_multiple_phones, phones_with_multiple_ids,
                        \* same_id_diff_phone, same_phone_diff_id, exact_duplicates
    df_clean,           \* the cleaned DataFrame
    counts,             \* after_both, after_id, cleaned_count, duplicates_*
    summary,            \* general summaries
    county              \* county level summaries

vars == <<pc, columns, df, filters, initial_count, audit, df_clean,
          counts, summary, county>>

\* ------------------------------------------------------ sequence helpers
Range(s) == {s[i] : i \in 1..Len(s)}

RECURSIVE TakeFrom(_, _, _)
TakeFrom(s, keep, i) ==
    IF i > Len(s) THEN <<>>
    ELSE (IF i \in keep THEN <<s[i]>> ELSE <<>>) \o TakeFrom(s, keep, i + 1)

\* Mask as a selection that collects the kept rows back to front.
RECURSIVE TakeBack(_, _, _)
TakeBack(s, keep, i) ==
    IF i > Len(s) THEN <<>>
    ELSE TakeBack(s, keep, i + 1) \o (IF i \in keep THEN <<s[i]>> ELSE <<>>)

MaskReversed(s, keep) == TakeBack(s, keep, 1)

\* Boolean-mask selection df[mask]: the rows at the positions in keep, in order.
Mask(s, keep) == TakeFrom(s, keep, 1)

\* The value a row has in the columns of subset, as compared by duplicated():
\* missing values compare equal to each other there.
KeyOf(r, subset) == [c \in subset |-> r[c]]

\* duplicated(keep='first') if a missing value never equalled a missing value.
DuplicatedFirstMissingDistinct(d, subset) ==
    {i \in 1..Len(d) :
        /\ \A c \in subset : notnull(d[i][c])
        /\ \E j \in 1..(i - 1) : KeyOf(d[j], subset) = KeyOf(d[i], subset)}

\* duplicated with keep=False in the place of keep='first'.
DuplicatedAnywhere(d, subset) ==
    {i \in 1..Len(d) : \E j \in 1..Len(d) : j # i /\ KeyOf(d[j], subset) = KeyOf(d[i], subset)}

\* DataFrame.duplicated(subset, keep='first'): positions that repeat an
\* earlier row on the subset columns.
DuplicatedFirst(d, subset) ==
    {i \in 1..Len(d) : \E j \in 1..(i - 1) : KeyOf(d[j], subset) = KeyOf(d[i], subset)}

\* duplicated with keep='first' in the place of keep=False.
DuplicatedAllButFirst(d, subset) ==
    {i \in 1..Len(d) : \E j \in 1..(i - 1) : KeyOf(d[j], subset) = KeyOf(d[i], subset)}

\* DataFrame.duplicated(subset, keep=False): positions whose subset value
\* occurs at some other position as well.
DuplicatedAll(d, subset) ==
    {i \in 1..Len(d) : \E j \in 1..Len(d) : j # i /\ KeyOf(d[j], subset) = KeyOf(d[i], subset)}

\* drop_duplicates with keep='last'.
drop_duplicates_keep_last(d, subset) ==
    Mask(d, {i \in 1..Len(d) :
                ~\E j \in (i + 1)..Len(d) : KeyOf(d[j], subset) = KeyOf(d[i], subset)})

\* DataFrame.drop_duplicates(subset, keep='first')
drop_duplicates(d, subset) == Mask(d, (1..Len(d)) \ DuplicatedFirst(d, subset))

\* ---------------------------------------------------------------- rows
\* The cells of one row of the sheet, before the row gets its index label.
Cells(ids, phones, locs, tss, genders, ages, pwds) ==
    [id : ids, phone : phones, loc : locs, ts : tss,
     gender : genders, age : ages, pwd : pwds]

\* Sheets of n rows whose cells are drawn from C; row i has index label i.
Sheets(n, C) ==
    {[i \in 1..n |-> [idx |-> i] @@ f[i]] : f \in [1..n -> C]}

\* ------------------------------------------------------- pandas helpers
\* Order of sort_values on one column: ascending, missing values last.
Before(a, b) ==
    IF isnull(a) THEN FALSE ELSE IF isnull(b) THEN TRUE ELSE a < b

\* sort_values left out: the frame stays in input order.
sort_values_unsorted(d, col) == {d}

\* The arrangements of the rows of d at the positions in S that are
\* ascending on col: any row with a least value of col comes first.
RECURSIVE Ascending(_, _, _)
Ascending(d, col, S) ==
    IF S = {} THEN {<<>>}
    ELSE UNION {{<<d[i]>> \o t : t \in Ascending(d, col, S \ {i})} :
                  i \in {m \in S : \A j \in S : ~Before(d[j][col], d[m][col])}}

\* df.sort_values(by=col) with the default kind='quicksort', which is not a
\* stable sort: every arrangement that is ascending on col is a possible
\* result, whatever the order of rows that tie on col.
sort_values(d, col) == Ascending(d, col, 1..Len(d))

\* df.sort_values(by=[c1, c2]): several columns are sorted with a lexsort,
\* which is stable, so the result is the one arrangement that is ascending on
\* (c1, c2) and keeps tying rows in their order in d.
PairBefore(r, s, c1, c2) ==
    \/ Before(r[c1], s[c1])
    \/ r[c1] = s[c1] /\ Before(r[c2], s[c2])

RECURSIVE StableAscending(_, _, _, _)
StableAscending(d, c1, c2, S) ==
    IF S = {} THEN <<>>
    ELSE LET i == CHOOSE m \in S :
                    \A j \in S : /\ ~PairBefore(d[j], d[m], c1, c2)
                                 /\ (j < m => PairBefore(d[m], d[j], c1, c2))
         IN  <<d[i]>> \o StableAscending(d, c1, c2, S \ {i})

sort_values2(d, c1, c2) == StableAscending(d, c1, c2, 1..Len(d))

\* nunique(dropna=False): the missing value counts as one more value.
groupby_nunique_keepna(d, by, col) ==
    [k \in {d[i][by] : i \in {j \in 1..Len(d) : notnull(d[j][by])}} |->
        Cardinality({d[i][col] : i \in {j \in 1..Len(d) : d[j][by] = k}})]

\* df.groupby(by)[col].nunique(): groupby drops the rows whose group key is
\* missing (dropna=True) and nunique does not count missing values.
groupby_nunique(d, by, col) ==
    [k \in {d[i][by] : i \in {j \in 1..Len(d) : notnull(d[j][by])}} |->
        Cardinality({d[i][col] : i \in {j \in 1..Len(d) :
                                           d[j][by] = k /\ notnull(d[j][col])}})]

\* groups[groups > 1].index.tolist()
more_than_one(groups) == {k \in DOMAIN groups : groups[k] > 1}

\* df[df[col].isin(values)]
isin(d, col, values) == Mask(d, {i \in 1..Len(d) : d[i][col] \in values})

\* df[col].value_counts(): missing values are not counted (dropna=True).
value_counts(d, col) ==
    [k \in {d[i][col] : i \in {j \in 1..Len(d) : notnull(d[j][col])}} |->
        Cardinality({i \in 1..Len(d) : d[i][col] = k})]

\* df.groupby([c1, c2]).size(): a row with a missing value in either
\* grouping column belongs to no group (dropna=True).  c1 is a numeric
\* column; na2 holds the missing value of column c2, if c2 can be missing.
groupby_size(d, c1, c2, na2) ==
    [k \in {<<d[i][c1], d[i][c2]>> :
               i \in {j \in 1..Len(d) : notnull(d[j][c1]) /\ d[j][c2] \notin na2}} |->
        Cardinality({i \in 1..Len(d) : <<d[i][c1], d[i][c2]>> = k})]

\* --------------------------------------------------------- text helpers
\* str.lower() on the characters the inputs use.
LowerChar(c) ==
    CASE c = "F" -> "f" [] c = "M" -> "m" [] c = "Y" -> "y" [] c = "N" -> "n"
      [] c = "E" -> "e" [] c = "S" -> "s" [] c = "O" -> "o" [] OTHER -> c

lower(s) == [i \in 1..Len(s) |-> LowerChar(s[i])]

RECURSIVE lstrip(_)
lstrip(s) == IF s # <<>> /\ Head(s) = " " THEN lstrip(Tail(s)) ELSE s

RECURSIVE rstrip(_)
rstrip(s) ==
    IF s # <<>> /\ s[Len(s)] = " " THEN rstrip(SubSeq(s, 1, Len(s) - 1)) ELSE s

strip(s) == lstrip(rstrip(s))

\* astype(str): the missing value becomes the text 'nan'.
astype_str(c) == IF isnullText(c) THEN <<"n", "a", "n">> ELSE c

\* sub in s
contains(s, sub) ==
    \E i \in 1..(Len(s) - Len(sub) + 1) : SubSeq(s, i, i + Len(sub) - 1) = sub

\* ------------------------------------------------ enrichment functions
DigitChars == <<"0", "1", "2", "3", "4", "5", "6", "7", "8", "9">>
IsDigit(c) == \E k \in 1..10 : DigitChars[k] = c
DigitVal(c) == (CHOOSE k \in 1..10 : DigitChars[k] = c) - 1

\* The decimal numeral of n, as the sheet holds a whole number of years.
RECURSIVE Numeral(_)
Numeral(n) ==
    IF n < 10 THEN <<DigitChars[n + 1]>>
    ELSE Numeral(n \div 10) \o <<DigitChars[(n % 10) + 1]>>

RECURSIVE ParseDigits(_, _)
ParseDigits(s, acc) ==
    IF s = <<>> THEN acc ELSE ParseDigits(Tail(s), 10 * acc + DigitVal(Head(s)))

\* pd.to_numeric(cell, errors='coerce'): the number a numeral stands for,
\* the missing value for a missing cell and for text that is no number.
to_numeric(c) ==
    IF c # <<>> /\ \A i \in 1..Len(c) : IsDigit(c[i])
    THEN ParseDigits(c, 0)
    ELSE NaN

\* Comparisons of floats: any comparison with NaN is False.
Le(a, b) == notnull(a) /\ notnull(b) /\ a <= b
Gt(a, b) == notnull(a) /\ notnull(b) /\ a > b

Youth == "Youth (18-35)"
Adult == "Adult (36+)"
Unknown == "Unknown"

\* The age groups with 35 left out of Youth.
AgeGroupExclusiveUpper(x) ==
    IF Le(18, x) /\ Le(x, 34) THEN Youth
    ELSE IF notnull(x) /\ Gt(x, 35) THEN Adult
    ELSE Unknown

\* lambda x: 'Youth' if 18 <= x <= 35 else ('Adult' if notnull(x) and x > 35
\* else 'Unknown')
AgeGroup(x) ==
    IF Le(18, x) /\ Le(x, 35) THEN Youth
    ELSE IF notnull(x) /\ Gt(x, 35) THEN Adult
    ELSE Unknown

\* lambda x: 'Yes' if 'yes' in x else ('No' if 'no' in x else 'Unspecified')
PWDStatus(x) ==
    IF contains(x, <<"y", "e", "s">>) THEN "Yes"
    ELSE IF contains(x, <<"n", "o">>) THEN "No"
    ELSE "Unspecified"

\* ----------------------------------------------------------- initial
NoFrame == <<>>

InitRest ==
    /\ pc = "filter_date"
    /\ filters = [start_date |-> NaN, end_date |-> NaN, selected_county |-> All]
    /\ initial_count = 0
    /\ audit = [ids_with_multiple_phones |-> {}, phones_with_multiple_ids |-> {},
                same_id_diff_phone |-> NoFrame, same_phone_diff_id |-> NoFrame,
                exact_duplicates |-> NoFrame]
    /\ df_clean = NoFrame
    /\ counts = [after_both |-> 0, after_id |-> 0, cleaned_count |-> 0,
                 duplicates_both |-> 0, duplicates_id |-> 0,
                 duplicates_phone |-> 0, duplicates_removed |-> 0]
    /\ summary = [total_participants |-> 0, total_youth |-> 0, total_adults |-> 0,
                  female_count |-> 0, pwd_count |-> 0,
                  youth_pct |-> <<0, 1>>, female_pct |-> <<0, 1>>,
                  pwd_pct |-> <<0, 1>>]
    /\ county = [county_summary |-> <<>>, gender_summary |-> <<>>,
                 age_summary |-> <<>>, pwd_summary |-> <<>>]

Female == <<"F", "e", "m", "a", "l", "e">>
Male == <<"M", "a", "l", "e">>

\* State after read_csv, dedup-oriented inputs: any sheet of at most MaxRows
\* rows over the key values; a key column may be missing from the sheet.
Init ==
    /\ columns \in {{id_col, phone_col, pwd_col}, {id_col, pwd_col},
                    {phone_col, pwd_col}, {pwd_col}}
    /\ \E n \in 0..MaxRows :
         df \in Sheets(n, Cells(IF id_col \in columns THEN KeyVals ELSE {NaN},
                                IF phone_col \in columns THEN KeyVals ELSE {NaN},
                                {1}, {1}, {Female}, {Numeral(30)}, {NaNText}))
    /\ InitRest

\* ------------------------------------------------------------- actions
\* Lines 37-38.  Date range filter; a missing Timestamp fails both comparisons.
FilterDate ==
    /\ pc = "filter_date"
    /\ \E s \in Dates, e \in Dates :
         /\ filters' = [filters EXCEPT !.start_date = s, !.end_date = e]
         /\ df' = Mask(df, {i \in 1..Len(df) :
                              notnull(df[i].ts) /\ df[i].ts >= s /\ df[i].ts <= e})
    /\ pc' = "filter_county"
    /\ UNCHANGED <<columns, initial_count, audit, df_clean, counts, summary, county>>

\* Line 42: 'All' and the counties of the date-filtered frame, dropna().
all_counties ==
    {All} \cup {df[i].loc : i \in {j \in 1..Len(df) : notnull(df[j].loc)}}

\* Lines 43-46.
FilterCounty ==
    /\ pc = "filter_county"
    /\ \E c \in all_counties :
         /\ filters' = [filters EXCEPT !.selected_county = c]
         /\ df' = IF c # All
                  THEN Mask(df, {i \in 1..Len(df) : df[i].loc = c})
                  ELSE df
    /\ pc' = "detect"
    /\ UNCHANGED <<columns, initial_count, audit, df_clean, counts, summary, county>>

\* Lines 49-66.  Selecting a column the sheet does not have raises KeyError
\* (the groupby of line 56) and the script ends there.
Detect ==
    /\ pc = "detect"
    /\ initial_count' = Len(df)
    /\ IF {id_col, phone_col} \subseteq columns
       THEN LET id_groups == groupby_nunique(df, id_col, phone_col)
                ids == more_than_one(id_groups)
                phone_groups == groupby_nunique(df, phone_col, id_col)
                phones == more_than_one(phone_groups)
            IN  /\ \E s1 \in sort_values(isin(df, id_col, ids), id_col),
                      s2 \in sort_values(isin(df, phone_col, phones), phone_col) :
                      audit' = [ids_with_multiple_phones |-> ids,
                                phones_with_multiple_ids |-> phones,
                                same_id_diff_phone |-> s1,
                                same_phone_diff_id |-> s2,
                                exact_duplicates |->
                                    sort_values2(
                                        Mask(df, DuplicatedAll(df, {id_col, phone_col})),
                                        id_col, phone_col)]
                /\ pc' = "step1"
       ELSE /\ pc' = "KeyError"
            /\ UNCHANGED audit
    /\ UNCHANGED <<columns, df, filters, df_clean, counts, summary, county>>

\* Lines 70-71.
Step1 ==
    /\ pc = "step1"
    /\ df_clean' = drop_duplicates(df, {id_col, phone_col})
    /\ counts' = [counts EXCEPT !.after_both = Len(df_clean')]
    /\ pc' = "step2"
    /\ UNCHANGED <<columns, df, filters, initial_count, audit, summary, county>>

\* Lines 74-75.
Step2 ==
    /\ pc = "step2"
    /\ df_clean' = drop_duplicates(df_clean, {id_col})
    /\ counts' = [counts EXCEPT !.after_id = Len(df_clean')]
    /\ pc' = "step3"
    /\ UNCHANGED <<columns, df, filters, initial_count, audit, summary, county>>

\* Lines 78-79.
Step3 ==
    /\ pc = "step3"
    /\ df_clean' = drop_duplicates(df_clean, {phone_col})
    /\ counts' = [counts EXCEPT !.cleaned_count = Len(df_clean')]
    /\ pc' = "removals"
    /\ UNCHANGED <<columns, df, filters, initial_count, audit, summary, county>>

\* Lines 82-85.
CalcRemovals ==
    /\ pc = "removals"
    /\ counts' = [counts EXCEPT
                    !.duplicates_both = initial_count - counts.after_both,
                    !.duplicates_id = counts.after_both - counts.after_id,
                    !.duplicates_phone = counts.after_id - counts.cleaned_count,
                    !.duplicates_removed = initial_count - counts.cleaned_count]
    /\ pc' = "enrich"
    /\ UNCHANGED <<columns, df, filters, initial_count, audit, df_clean, summary, county>>

\* Lines 88-101: the age column becomes numeric, 'Age Group' and 'PWD Status'
\* are added; the disability column, when the sheet has it, is overwritten
\* by its stripped lower-case text.
EnrichRow(r) ==
    LET x == to_numeric(r.age)
        p == strip(lower(astype_str(r.pwd)))
    IN  [age_group |-> AgeGroup(x),
         pwd_status |-> IF pwd_col \in columns THEN PWDStatus(p) ELSE "Unspecified"]
        @@ [r EXCEPT !.age = x,
                     !.pwd = IF pwd_col \in columns THEN p ELSE r.pwd]

Enrich ==
    /\ pc = "enrich"
    /\ df_clean' = [i \in 1..Len(df_clean) |-> EnrichRow(df_clean[i])]
    /\ pc' = "summaries"
    /\ UNCHANGED <<columns, df, filters, initial_count, audit, counts, summary, county>>

\* count / total * 100 if total else 0, kept as the exact fraction.
Pct(count, total) == IF total # 0 THEN <<count * 100, total>> ELSE <<0, 1>>

\* Lines 104-112.
Summaries ==
    /\ pc = "summaries"
    /\ LET total == counts.cleaned_count
           rows == 1..Len(df_clean)
           youth == Cardinality({i \in rows : df_clean[i].age_group = Youth})
           adults == Cardinality({i \in rows : df_clean[i].age_group = Adult})
           female == Cardinality({i \in rows :
                        /\ ~isnullText(df_clean[i].gender)
                        /\ contains(lower(df_clean[i].gender),
                                    <<"f", "e", "m", "a", "l", "e">>)})
           pwd == Cardinality({i \in rows : df_clean[i].pwd_status = "Yes"})
       IN  summary' = [total_participants |-> total, total_youth |-> youth,
                       total_adults |-> adults, female_count |-> female,
                       pwd_count |-> pwd,
                       youth_pct |-> Pct(youth, total),
                       female_pct |-> Pct(female, total),
                       pwd_pct |-> Pct(pwd, total)]
    /\ pc' = "county"
    /\ UNCHANGED <<columns, df, filters, initial_count, audit, df_clean, counts, county>>

\* Lines 203-208.
CountySummaries ==
    /\ pc = "county"
    /\ county' = [county_summary |-> value_counts(df_clean, "loc"),
                  gender_summary |->
                      groupby_size(df_clean, "loc", "gender", {NaNText}),
                  age_summary |->
                      groupby_size(df_clean, "loc", "age_group", {}),
                  pwd_summary |->
                      groupby_size(df_clean, "loc", "pwd_status", {})]
    /\ pc' = "done"
    /\ UNCHANGED <<columns, df, filters, initial_count, audit, df_clean, counts, summary>>

Next ==
    \/ FilterDate
    \/ FilterCounty
    \/ Detect
    \/ Step1
    \/ Step2
    \/ Step3
    \/ CalcRemovals
    \/ Enrich
    \/ Summaries
    \/ CountySummaries

Spec == Init /\ [][Next]_vars

\* Sort-oriented inputs: sheets of up to SortRows rows, so that
\* same_id_diff_phone can hold two groups of two rows each.  Each National ID
\* has phone numbers of its own, so that the ties are those of the sort by
\* National ID.
InitSort ==
    /\ columns = {id_col, phone_col, pwd_col}
    /\ \E n \in 0..SortRows :
         df \in Sheets(n, Cells({1}, {1, 2}, {1}, {1}, {Female},
                                {Numeral(30)}, {NaNText})
                          \cup Cells({2}, {3, 4}, {1}, {1}, {Female},
                                     {Numeral(30)}, {NaNText}))
    /\ InitRest

SpecSort == InitSort /\ [][Next]_vars

\* Age-oriented inputs: the age cell is a numeral of 0..MaxAge, empty, or
\* text that is no number.
AgeCells ==
    {Numeral(n) : n \in 0..MaxAge} \cup {NaNText, <<"x">>, <<"1", "x">>}

InitAge ==
    /\ columns = {id_col, phone_col, pwd_col}
    /\ \E n \in 0..AgeRows :
         df \in Sheets(n, Cells({1, 2}, {1}, {1}, {1}, {Female},
                                AgeCells, {NaNText}))
    /\ InitRest

SpecAge == InitAge /\ [][Next]_vars

\* County-summary-oriented inputs: county, gender, disability answer and
\* timestamp may each be missing; the disability column may be absent.
InitAgg ==
    /\ columns \in {{id_col, phone_col, pwd_col}, {id_col, phone_col}}
    /\ \E n \in 0..AggRows :
         df \in Sheets(n, Cells({1, 2}, {1, 2}, LocVals, {NaN, 1},
                                {NaNText, Female, Male}, {Numeral(30)},
                                IF pwd_col \in columns
                                THEN {NaNText, <<"Y", "e", "s", " ">>, <<"n", "o">>}
                                ELSE {NaNText}))
    /\ InitRest

SpecAgg == InitAgg /\ [][Next]_vars

\* =============================================================== claims
\* Positions of the script at which the named part has run.
Detected == pc \in {"step1", "step2", "step3", "removals", "enrich",
                    "summaries", "county", "done"}
AfterStep1 == pc \in {"step2", "step3", "removals", "enrich", "summaries",
                      "county", "done"}
AfterStep3 == pc \in {"removals", "enrich", "summaries", "county", "done"}
Counted == pc \in {"enrich", "summaries", "county", "done"}
Enriched == pc \in {"summaries", "county", "done"}

Rows(d) == 1..Len(d)
Labels(d) == {d[i].idx : i \in Rows(d)}

\* C1: after the three dedup stages no two records of the canonical set have
\* the same identity_key and no two have the same contact_key; a missing key
\* is a key value like any other, so at most one survivor has a missing
\* identity_key and at most one has a missing contact_key.
C1_UniqueKeys ==
    AfterStep3 =>
        \A i, j \in Rows(df_clean) :
            i # j => /\ df_clean[i].id # df_clean[j].id
                     /\ df_clean[i].phone # df_clean[j].phone

\* Two input records with a missing identity_key and different contact_keys,
\* of which the cleaned set keeps one next to another survivor.
C1_Witness ==
    /\ pc = "done"
    /\ \E i, j \in Rows(df) :
          /\ i < j
          /\ isnull(df[i].id) /\ isnull(df[j].id)
          /\ df[i].phone # df[j].phone
          /\ df[i].idx \in Labels(df_clean)
          /\ df[j].idx \notin Labels(df_clean)
    /\ Len(df_clean) = 2

\* C2 (as claimed): every record of the canonical set is, for each of its two
\* key values, the earliest record of the input that carries that value.
C2_EarliestInInput ==
    AfterStep3 =>
        \A k \in Rows(df_clean), i \in Rows(df) :
            (df[i].id = df_clean[k].id \/ df[i].phone = df_clean[k].phone)
                => df[i].idx >= df_clean[k].idx

\* Input position i holds the earliest record of the input with its
\* identity_key.
FirstOfItsId(i) == \A j \in Rows(df) : df[j].id = df[i].id => j >= i

\* C2 (amended): every record of the canonical set is the earliest input
\* record with its identity_key, and is the earliest record with its
\* contact_key among the input records that are the earliest with their own
\* identity_key (the survivors of stage 2); an earlier input record with the
\* same contact_key may have been removed as an identity_key duplicate.
C2_KeepFirstPerStage ==
    AfterStep3 =>
        \A k \in Rows(df_clean), i \in Rows(df) :
            /\ df[i].id = df_clean[k].id => df[i].idx >= df_clean[k].idx
            /\ (df[i].phone = df_clean[k].phone /\ FirstOfItsId(i))
                  => df[i].idx >= df_clean[k].idx

\* A survivor whose contact_key an earlier, removed input record carries too.
C2_Witness ==
    /\ pc = "done"
    /\ \E k \in Rows(df_clean), i \in Rows(df) :
          /\ df[i].phone = df_clean[k].phone
          /\ df[i].idx < df_clean[k].idx
          /\ df[i].idx \notin Labels(df_clean)

\* The distinct values, the missing value included, that column col takes
\* among the input records whose column by equals v.
ValuesAmong(by, v, col) == {df[j][col] : j \in {i \in Rows(df) : df[i][by] = v}}

\* The non-missing ones among them.
PresentAmong(by, v, col) == {x \in ValuesAmong(by, v, col) : notnull(x)}

\* C3 (as claimed): a record is in same_identity_diff_contact if and only if
\* the input records sharing its identity_key take on more than one
\* contact_key value, and symmetrically for same_contact_diff_identity.
C3_MembershipAnyKey ==
    Detected =>
        \A i \in Rows(df) :
            /\ df[i].idx \in Labels(audit.same_id_diff_phone)
                  <=> Cardinality(ValuesAmong(id_col, df[i].id, phone_col)) > 1
            /\ df[i].idx \in Labels(audit.same_phone_diff_id)
                  <=> Cardinality(ValuesAmong(phone_col, df[i].phone, id_col)) > 1

\* C3 (amended): a record is in same_identity_diff_contact if and only if its
\* identity_key is not missing and the input records sharing it take on more
\* than one distinct non-missing contact_key value; symmetrically for
\* same_contact_diff_identity.  Each such record is there exactly once, and
\* a key value carried by a single record never qualifies.
C3_MembershipPresentKeys ==
    Detected =>
        /\ \A i \in Rows(df) :
            /\ df[i].idx \in Labels(audit.same_id_diff_phone)
                  <=> /\ notnull(df[i].id)
                      /\ Cardinality(PresentAmong(id_col, df[i].id, phone_col)) > 1
            /\ df[i].idx \in Labels(audit.same_phone_diff_id)
                  <=> /\ notnull(df[i].phone)
                      /\ Cardinality(PresentAmong(phone_col, df[i].phone, id_col)) > 1
            /\ Cardinality({j \in Rows(df) : df[j].id = df[i].id}) = 1
                  => df[i].idx \notin Labels(audit.same_id_diff_phone)
            /\ Cardinality({j \in Rows(df) : df[j].phone = df[i].phone}) = 1
                  => df[i].idx \notin Labels(audit.same_phone_diff_id)
        /\ Len(audit.same_id_diff_phone) = Cardinality(Labels(audit.same_id_diff_phone))
        /\ Len(audit.same_phone_diff_id) = Cardinality(Labels(audit.same_phone_diff_id))
        /\ Range(audit.same_id_diff_phone) \subseteq Range(df)
        /\ Range(audit.same_phone_diff_id) \subseteq Range(df)

\* An identity_key with two contact_keys is reported, while a contact_key
\* shared by a record with an identity_key and a record without one is not.
C3_Witness ==
    /\ Detected
    /\ Len(audit.same_id_diff_phone) = 2
    /\ \E i, j \in Rows(df) :
          /\ df[i].phone = df[j].phone /\ notnull(df[i].phone)
          /\ isnull(df[i].id) /\ notnull(df[j].id)
          /\ df[i].idx \notin Labels(audit.same_phone_diff_id)
          /\ df[j].idx \in Labels(audit.same_id_diff_phone)

\* The (identity_key, contact_key) pair of a record.
Pair(r) == <<r.id, r.phone>>

\* C4: exact_duplicates holds every occurrence of each pair that occurs two
\* or more times in the input and nothing else, and stage 1 removes n-1
\* records of each such group of n: duplicates_both equals the number of
\* records in exact_duplicates minus the number of distinct repeated pairs.
C4_ExactDuplicatesConsistent ==
    /\ Detected =>
        /\ \A i \in Rows(df) :
              df[i].idx \in Labels(audit.exact_duplicates)
                 <=> Cardinality({j \in Rows(df) : Pair(df[j]) = Pair(df[i])}) >= 2
        /\ Range(audit.exact_duplicates) \subseteq Range(df)
        /\ Len(audit.exact_duplicates) = Cardinality(Labels(audit.exact_duplicates))
    /\ pc = "step2" =>
        \A q \in {Pair(df[i]) : i \in Rows(df)} :
            Cardinality({i \in Rows(df) :
                            Pair(df[i]) = q /\ df[i].idx \notin Labels(df_clean)})
               = Cardinality({i \in Rows(df) : Pair(df[i]) = q}) - 1
    /\ Counted =>
        counts.duplicates_both =
            Len(audit.exact_duplicates)
               - Cardinality({Pair(r) : r \in Range(audit.exact_duplicates)})

\* A repeated pair of three records: two of them are removed at stage 1.
C4_Witness ==
    /\ pc = "done"
    /\ Len(audit.exact_duplicates) = 3
    /\ counts.duplicates_both = 2
    /\ Len(df) = 3

\* C5: when the identity-key or the contact-key column is absent from the
\* sheet, the run does not end in a fatal error.
C5_NoFatalErrorOnMissingKeyColumn ==
    ~({id_col, phone_col} \subseteq columns) => pc # "KeyError"

\* The cells of a canonical record that enrichment leaves alone.
Raw(r) == [idx |-> r.idx, id |-> r.id, phone |-> r.phone, loc |-> r.loc,
           ts |-> r.ts, gender |-> r.gender]

\* C6: after each of the three stages the canonical set is an
\* order-preserving subsequence of the filtered input: each of its records
\* is an input record, none occurs twice, it is no longer than the input,
\* and its records are in input order.
C6_OrderPreservingSubsequence ==
    AfterStep1 =>
        /\ \A k \in Rows(df_clean) : \E i \in Rows(df) : Raw(df[i]) = Raw(df_clean[k])
        /\ \A k, l \in Rows(df_clean) : k < l => df_clean[k].idx < df_clean[l].idx
        /\ Len(df_clean) <= Len(df)

\* Two survivors that were not neighbours in the input, with a removed
\* record between them.
C6_Witness ==
    /\ pc = "done"
    /\ Len(df) = 3 /\ Len(df_clean) = 2
    /\ df_clean[1].idx = df[1].idx /\ df_clean[2].idx = df[3].idx

\* C10: after each stage, every record that has been removed shares its
\* identity_key or its contact_key with a record strictly earlier in the
\* input; so the first record of a non-empty input is never removed and the
\* canonical set is empty only when the input is empty.
C10_RemovedHasEarlierMatch ==
    AfterStep1 =>
        /\ \A i \in Rows(df) :
              df[i].idx \notin Labels(df_clean)
                 => \E j \in 1..(i - 1) :
                        df[j].id = df[i].id \/ df[j].phone = df[i].phone
        /\ Len(df) > 0 => (Len(df_clean) > 0 /\ df_clean[1].idx = df[1].idx)
        /\ Len(df_clean) = 0 => Len(df) = 0

\* A record removed at stage 3 only: it shares just its contact_key with an
\* earlier record.
C10_Witness ==
    /\ pc = "done"
    /\ counts.duplicates_phone >= 1
    /\ \E i \in Rows(df) :
          /\ df[i].idx \notin Labels(df_clean)
          /\ \A j \in 1..(i - 1) : df[j].id # df[i].id

RECURSIVE SumOver(_, _)
SumOver(f, S) ==
    IF S = {} THEN 0
    ELSE LET x == CHOOSE y \in S : TRUE IN f[x] + SumOver(f, S \ {x})

\* The sum of the counts of a summary table.
SumCounts(f) == SumOver(f, DOMAIN f)

\* C7: in the per-county breakdowns the canonical records whose location is
\* missing form a group of their own and are counted, so that the counts per
\* location sum to the number of canonical records.
C7_MissingLocationCounted ==
    pc = "done" =>
        /\ \A k \in Rows(df_clean) :
              /\ df_clean[k].loc \in DOMAIN county.county_summary
              /\ <<df_clean[k].loc, df_clean[k].age_group>> \in DOMAIN county.age_summary
              /\ <<df_clean[k].loc, df_clean[k].pwd_status>> \in DOMAIN county.pwd_summary
        /\ SumCounts(county.county_summary) = Len(df_clean)
        /\ SumCounts(county.age_summary) = Len(df_clean)
        /\ SumCounts(county.pwd_summary) = Len(df_clean)

\* The age cell, as read from the sheet, of the canonical record at k.
AgeCellOf(k) ==
    LET i == CHOOSE j \in Rows(df) : df[j].idx = df_clean[k].idx IN df[i].age

\* C8: the age group of every canonical record is Youth exactly when its age
\* cell is a number from 18 to 35, Adult exactly when it is a number above
\* 35, and Unknown in every other case: a number below 18, a missing cell,
\* or text that is no number.
C8_AgeGroupBoundaries ==
    Enriched =>
        \A k \in Rows(df_clean) :
            LET g == df_clean[k].age_group
                c == AgeCellOf(k)
                youth == \E n \in 18..35 : c = Numeral(n)
                adult == \E n \in 36..MaxAge : c = Numeral(n)
            IN  /\ g = Youth <=> youth
                /\ g = Adult <=> adult
                /\ g = Unknown <=> ~youth /\ ~adult
                /\ c \in {NaNText, <<"x">>, <<"1", "x">>} =>
                      isnull(df_clean[k].age) /\ g = Unknown
                /\ c = Numeral(17) => g = Unknown
                /\ c \in {Numeral(18), Numeral(35)} => g = Youth
                /\ c = Numeral(36) => g = Adult

\* A canonical record aged 35, the upper boundary of Youth.
C8_Witness ==
    /\ pc = "done"
    /\ \E k \in Rows(df_clean) :
          /\ AgeCellOf(k) = <<"3", "5">>
          /\ df_clean[k].age = 35
          /\ df_clean[k].age_group = Youth

\* s is ascending on the identity_key.
AscendingById(s) ==
    \A k, l \in Rows(s) : k < l => ~Before(s[l].id, s[k].id)

\* C9 (as claimed): same_identity_diff_contact is sorted ascending by
\* identity_key and records with equal identity_key are in input order.
C9_SortedAndStable ==
    Detected =>
        /\ AscendingById(audit.same_id_diff_phone)
        /\ \A k, l \in Rows(audit.same_id_diff_phone) :
              (k < l /\ audit.same_id_diff_phone[k].id = audit.same_id_diff_phone[l].id)
                 => audit.same_id_diff_phone[k].idx < audit.same_id_diff_phone[l].idx

\* C9 (amended): same_identity_diff_contact is sorted ascending by
\* identity_key; the sort is the default one, which is not stable, so the
\* relative order of records with equal identity_key is not determined.
C9_SortedAscending ==
    Detected => AscendingById(audit.same_id_diff_phone)

\* Two groups whose records alternate in the input, gathered by the sort,
\* with the records of the first group not in input order.
C9_Witness ==
    /\ Detected
    /\ Len(df) = 4
    /\ df[1].id = 2 /\ df[2].id = 1 /\ df[3].id = 2 /\ df[4].id = 1
    /\ Len(audit.same_id_diff_phone) = 4
    /\ audit.same_id_diff_phone[1].idx > audit.same_id_diff_phone[2].idx

====
